---- MODULE Spec2Model ----
(***************************************************************************)
(* Whale-Observer (src/src/main.rs): a supervisor loop that connects to an *)
(* Ethereum node, subscribes to the Swap logs of one Uniswap V3 pool,      *)
(* decodes each log, detects swaps of at least 20 ETH and sends at most    *)
(* one Telegram alert per second from a spawned task.                      *)
(*                                                                         *)
(* Scaling.  TLC integers are 32 bits wide, so the two integer widths of   *)
(* the program are scaled down and the unit of amount is 1 ETH:            *)
(*   int256 (Swap.amount1)  -> I256_BITS-bit two's complement,             *)
(*   u128   (get_abs_wei)   -> U128_BITS-bit unsigned,                     *)
(*   20 * 10^18 wei         -> 20.                                         *)
(* The order threshold < 2^U128_BITS < 2^(I256_BITS-1) of the program is   *)
(* kept.  An amount is carried as its raw two's-complement bits, the way  *)
(* alloy's I256 stores it.                                                 *)
(*                                                                         *)
(* Time.  One tick of the clock is 500 ms.                                 *)
(***************************************************************************)
EXTENDS Integers, Sequences, FiniteSets, TLC

(* ---------------------------- program constants ------------------------ *)

\* const WHALE_THRESHOLD_WEI: u128 = 20 * 10^18  (in ETH)
WHALE_THRESHOLD_WEI == 20

\* const MIN_ALERT_INTERVAL = Duration::from_secs(1)  (in 500 ms ticks)
MIN_ALERT_INTERVAL == 2

\* tokio::time::sleep(Duration::from_secs(5))  (in 500 ms ticks)
RECONNECT_DELAY == 10

\* width of int256 amount1 (scaled)
I256_BITS == 10

\* width of the u128 returned by get_abs_wei (scaled)
U128_BITS == 5

(* --------------------------------- bounds ------------------------------ *)

\* the clock stops advancing at MaxTime ticks
MaxTime == 11

\* at most MaxRecs log records are delivered by the event source
MaxRecs == 3

\* at most MaxAlerts dispatch tasks are spawned
MaxAlerts == 2

\* the time one handler may take between two clock readings, in ticks
MaxJitter == 1

\* number of racing tasks in the rate-limiter harness
RaceTasks == 3

(* ------------------------------- the state ----------------------------- *)

VARIABLES
    now,              \* tokio::time::Instant::now(), in ticks since process start
    mainPc,           \* where main() is: start, connect, subscribe, stream, sleep,
                      \*   aborted (configuration panic), panicked (panic in the loop)
    config,           \* the three environment values read by main()
    last_alert_time,  \* the Instant inside Arc<Mutex<Instant>>
    attempts,         \* number of run_listener calls (connection attempts) so far
    connectAt,        \* when the last connection attempt started
    runEndAt,         \* <<t>>: when the listener run returned, while main sleeps
    tasks,            \* the spawned send_alert tasks, in spawn order
    sink,             \* ids of the messages the Telegram API has received, in order
    lastLog,          \* what the handler of the last record did (its log lines);
                      \*   seq counts the records handled
    lastAttempt,      \* <<t>>: when the last rate-limiter attempt finished
    lastGrant,        \* <<t>>: the timestamp stored by the last granted attempt
    detIn, detOut,    \* input and result of the detector expressions (SpecDetect)
    rpc, holder, rres, raceLast0   \* the rate-limiter race harness (SpecRace)

vars == <<now, mainPc, config, last_alert_time, attempts, connectAt,
          runEndAt, tasks, sink, lastLog, lastAttempt, lastGrant, detIn, detOut,
          rpc, holder, rres, raceLast0>>

mainVars == <<mainPc, config, attempts, connectAt, runEndAt, tasks,
              sink, lastLog, lastAttempt, lastGrant>>
detVars  == <<detIn, detOut>>
raceVars == <<rpc, holder, rres, raceLast0>>

(* --------------------- int256 / u128 arithmetic (alloy) ---------------- *)

Pow2(n) == 2 ^ n

\* the raw bit patterns of an int256
I256Raw == 0 .. (Pow2(I256_BITS) - 1)

U128_MAX == Pow2(U128_BITS) - 1

\* the mathematical value of a raw int256 (two's complement)
SignedVal(raw) == IF raw >= Pow2(I256_BITS - 1) THEN raw - Pow2(I256_BITS) ELSE raw

\* the raw bits of a mathematical value in range
ToRaw(v) == IF v < 0 THEN v + Pow2(I256_BITS) ELSE v

MathAbs(v) == IF v < 0 THEN 0 - v ELSE v

\* I256::is_negative: the sign bit
is_negative(raw) == (raw \div Pow2(I256_BITS - 1)) % 2 = 1

\* I256::wrapping_neg: two's-complement negation modulo 2^256
wrapping_neg(raw) == (Pow2(I256_BITS) - raw) % Pow2(I256_BITS)

\* I256::into_raw: the same bits read as U256
into_raw(raw) == raw

\* Uint::to::<u128>(): the value if it fits, a panic otherwise
to_u128(u) == IF u <= U128_MAX THEN [ok |-> TRUE, val |-> u]
                               ELSE [ok |-> FALSE, val |-> 0]

\* fn get_abs_wei(value: &I256) -> u128
get_abs_wei(value) ==
    LET abs_value == IF is_negative(value) THEN wrapping_neg(value) ELSE value
        as_u256   == into_raw(abs_value)
    IN  to_u128(as_u256)

IsWhale_low(abs_amount1) == abs_amount1 >= WHALE_THRESHOLD_WEI - 1

\* if abs_amount1 >= WHALE_THRESHOLD_WEI
IsWhale(abs_amount1) == abs_amount1 >= WHALE_THRESHOLD_WEI

\* the branch run_listener takes on a decoded Swap: get_abs_wei panics, or the
\* amount is compared with the threshold
Branch(amount1) ==
    LET abs == get_abs_wei(amount1)
    IN  IF ~abs.ok THEN "panic"
        ELSE IF IsWhale(abs.val) THEN "whale" ELSE "small"

Direction_nonpositive(amount1) ==
    IF is_negative(amount1) \/ amount1 = 0 THEN "BOUGHT" ELSE "SOLD"

\* if swap.amount1.is_negative() { "BOUGHT" } else { "SOLD" }
Direction(amount1) == IF is_negative(amount1) THEN "BOUGHT" ELSE "SOLD"

(* ------------------------------ rate limiter --------------------------- *)

WindowElapsed_short(last, t) == t - last >= MIN_ALERT_INTERVAL - 1

WindowElapsed_strict(last, t) == t - last > MIN_ALERT_INTERVAL

\* last_time.elapsed() >= MIN_ALERT_INTERVAL, the clock reading t
WindowElapsed(last, t) == t - last >= MIN_ALERT_INTERVAL

TryAcquire_stampOnDeny(last, chk, stamp) ==
    [granted |-> WindowElapsed(last, chk), last |-> stamp]

TryAcquire_nostamp(last, chk, stamp) ==
    [granted |-> WindowElapsed(last, chk), last |-> last]

\* the critical section of run_listener: the check at clock reading chk, and on
\* success the store of a second clock reading stamp
TryAcquire(last, chk, stamp) ==
    IF WindowElapsed(last, chk)
    THEN [granted |-> TRUE,  last |-> stamp]
    ELSE [granted |-> FALSE, last |-> last]

\* Instant::now() - MIN_ALERT_INTERVAL
InitialLastAlert(t) == t - MIN_ALERT_INTERVAL

MutexFree_always(h) == TRUE

\* tokio::sync::Mutex: lock().await returns only while no guard is alive
MutexFree(h) == h = 0

(* -------------------------------- main() ------------------------------- *)

NoLog == [seq |-> 0, kind |-> "none", prevKind |-> "none", amount1 |-> 0,
          branch |-> "none", gate |-> "none"]

NoConfig == [url |-> "unread", token |-> "unread", chat |-> "unread"]

MainRest ==
    /\ mainPc = "start"
    /\ config = NoConfig
    /\ attempts = 0
    /\ connectAt = 0
    /\ runEndAt = <<>>
    /\ tasks = <<>>
    /\ sink = <<>>
    /\ lastLog = NoLog
    /\ lastAttempt = <<>>
    /\ lastGrant = <<>>

MainInit ==
    /\ now = 0
    /\ last_alert_time = 0
    /\ MainRest

DetIdle == /\ detIn = 0
           /\ detOut = [run |-> FALSE, abs |-> to_u128(0), branch |-> "none", dir |-> "none"]

RaceIdle == /\ rpc = [i \in 1 .. RaceTasks |-> "off"]
            /\ holder = 0
            /\ rres = [i \in 1 .. RaceTasks |-> "none"]
            /\ raceLast0 = 0

Init == MainInit /\ DetIdle /\ RaceIdle

\* a connection attempt starts: run_listener is called
StartAttempt ==
    /\ attempts' = attempts + 1
    /\ connectAt' = now

ConfigValid_noparse(c) == c.url = "set" /\ c.token = "set" /\ c.chat # "absent"

\* the three env::var(..).expect(..) calls and chat_id.parse::<i64>().expect(..)
ConfigValid(c) == c.url = "set" /\ c.token = "set" /\ c.chat = "integer"

\* main(), up to the first call of run_listener
LoadConfig(url, token, chat) ==
    /\ mainPc = "start"
    /\ config' = [url |-> url, token |-> token, chat |-> chat]
    /\ IF ConfigValid(config')
       THEN /\ mainPc' = "connect"
            /\ last_alert_time' = InitialLastAlert(now)
            /\ StartAttempt
       ELSE /\ mainPc' = "aborted"
            /\ UNCHANGED <<last_alert_time, attempts, connectAt>>
    /\ UNCHANGED <<now, runEndAt, tasks, sink, lastLog, lastAttempt, lastGrant>>
    /\ UNCHANGED <<detVars, raceVars>>

\* run_listener returned (Ok or Err): main logs it and starts the 5 s sleep
EndRun ==
    /\ mainPc' = "sleep"
    /\ runEndAt' = <<now>>

\* connect_ws(ws).await?
Connect(ok) ==
    /\ mainPc = "connect"
    /\ IF ok THEN mainPc' = "subscribe" /\ UNCHANGED runEndAt
             ELSE EndRun
    /\ UNCHANGED <<now, config, last_alert_time, attempts, connectAt, tasks, sink,
                   lastLog, lastAttempt, lastGrant>>
    /\ UNCHANGED <<detVars, raceVars>>

\* provider.subscribe_logs(&filter).await?
Subscribe(ok) ==
    /\ mainPc = "subscribe"
    /\ IF ok THEN mainPc' = "stream" /\ UNCHANGED runEndAt
             ELSE EndRun
    /\ UNCHANGED <<now, config, last_alert_time, attempts, connectAt, tasks, sink,
                   lastLog, lastAttempt, lastGrant>>
    /\ UNCHANGED <<detVars, raceVars>>

\* stream.next().await is None: the while loop ends and run_listener returns Ok(())
StreamEnd ==
    /\ mainPc = "stream"
    /\ EndRun
    /\ UNCHANGED <<now, config, last_alert_time, attempts, connectAt, tasks, sink,
                   lastLog, lastAttempt, lastGrant>>
    /\ UNCHANGED <<detVars, raceVars>>

\* the sleep started at t ends at t + 5 s
SleepDeadline_nosleep(t) == t

SleepDeadline(t) == t + RECONNECT_DELAY

\* tokio::time::sleep returns no earlier than its deadline; the loop calls
\* run_listener again
WakeUp ==
    /\ mainPc = "sleep"
    /\ now >= SleepDeadline(runEndAt[1])
    /\ mainPc' = "connect"
    /\ StartAttempt
    /\ runEndAt' = <<>>
    /\ UNCHANGED <<now, config, last_alert_time, tasks, sink, lastLog, lastAttempt,
                   lastGrant>>
    /\ UNCHANGED <<detVars, raceVars>>

Alive == mainPc \in {"connect", "subscribe", "stream", "sleep"}

(* ------------------------------ run_listener --------------------------- *)

\* the amounts the event source delivers in the model: a small swap, a whale
\* bought, a whale sold, and the int256 minimum
SampleAmounts ==
    LET T == WHALE_THRESHOLD_WEI
        M == Pow2(I256_BITS - 1)
    IN  {ToRaw(v) : v \in {0 - (T - 1), 0 - (T + 1), T + 5, 0 - M}}

LogOf(kind, amount1, branch, gate) ==
    [seq |-> lastLog.seq + 1, kind |-> kind, prevKind |-> lastLog.kind,
     amount1 |-> amount1, branch |-> branch, gate |-> gate]

RecvUndecodable_abort ==
    /\ mainPc = "stream"
    /\ lastLog.seq < MaxRecs
    /\ lastLog' = LogOf("decode_fail", 0, "none", "none")
    /\ EndRun
    /\ UNCHANGED <<now, config, last_alert_time, attempts, connectAt,
                   tasks, sink, lastAttempt, lastGrant>>
    /\ UNCHANGED <<detVars, raceVars>>

\* one iteration of the while loop on a log that log_decode::<Swap>() rejects:
\* warn! and continue
RecvUndecodable ==
    /\ mainPc = "stream"
    /\ lastLog.seq < MaxRecs
    /\ lastLog' = LogOf("decode_fail", 0, "none", "none")
    /\ UNCHANGED <<now, mainPc, config, last_alert_time, attempts, connectAt,
                   runEndAt, tasks, sink, lastAttempt, lastGrant>>
    /\ UNCHANGED <<detVars, raceVars>>

\* tokio::spawn(async move { send_alert(..).await })
\* (the message carries the direction and the amount)
SpawnedTask(amount1, abs_amount1) ==
    [dir |-> Direction(amount1), eth |-> abs_amount1, status |-> "inflight"]

GuardAfterHandler_held(granted) == IF granted THEN 1 ELSE 0

\* the holder of the rate limiter's mutex when the handler's iteration ends:
\* the guard is dropped before tokio::spawn (drop(last_time)) or at the end
\* of the else block, and the spawned task never takes the mutex
GuardAfterHandler(granted) == 0

\* one iteration of the while loop on a log that decodes to a Swap with the
\* given amount1.  A whale waits in lock().await until the mutex is free.  d1 ticks pass between last_time.elapsed() and Instant::now(),
\* d2 ticks between Instant::now() and tokio::spawn.
RecvSwap(amount1, d1, d2) ==
    LET abs     == get_abs_wei(amount1)
        branch  == Branch(amount1)
        whale   == branch = "whale"
        acq     == TryAcquire(last_alert_time, now, now + d1)
        granted == whale /\ acq.granted
    IN  /\ mainPc = "stream"
        /\ lastLog.seq < MaxRecs
        /\ now + d1 + d2 <= MaxTime
        /\ ~granted => (d1 = 0 /\ d2 = 0)
        /\ granted => Len(tasks) < MaxAlerts
        /\ whale => MutexFree(holder)
        /\ mainPc' = IF branch = "panic" THEN "panicked" ELSE "stream"
        /\ last_alert_time' = IF whale THEN acq.last ELSE last_alert_time
        /\ lastAttempt' = IF whale THEN <<now + d1>> ELSE lastAttempt
        /\ tasks' = IF granted
                    THEN Append(tasks, SpawnedTask(amount1, abs.val))
                    ELSE tasks
        /\ lastGrant' = IF granted THEN <<acq.last>> ELSE lastGrant
        /\ now' = now + d1 + d2
        /\ lastLog' = LogOf("swap", amount1, branch,
                            IF ~whale THEN "none" ELSE IF granted THEN "granted" ELSE "limited")
        /\ holder' = GuardAfterHandler(granted)
        /\ UNCHANGED <<config, attempts, connectAt, runEndAt, sink>>
        /\ UNCHANGED <<detVars, rpc, rres, raceLast0>>

SendDone_rollback(i, ok) ==
    /\ Alive
    /\ i \in 1 .. Len(tasks)
    /\ tasks[i].status = "inflight"
    /\ tasks' = [tasks EXCEPT ![i].status = IF ok THEN "sent" ELSE "failed"]
    /\ sink' = IF ok THEN Append(sink, i) ELSE sink
    /\ last_alert_time' = IF ok THEN last_alert_time ELSE InitialLastAlert(now)
    /\ UNCHANGED <<now, mainPc, config, attempts, connectAt,
                   runEndAt, lastLog, lastAttempt, lastGrant>>
    /\ UNCHANGED <<detVars, raceVars>>

\* async fn send_alert, run by a spawned task: the send succeeds or fails, and
\* either way is only logged
SendDone(i, ok) ==
    /\ Alive
    /\ i \in 1 .. Len(tasks)
    /\ tasks[i].status = "inflight"
    /\ tasks' = [tasks EXCEPT ![i].status = IF ok THEN "sent" ELSE "failed"]
    /\ sink' = IF ok THEN Append(sink, i) ELSE sink
    /\ UNCHANGED <<now, mainPc, config, last_alert_time, attempts, connectAt,
                   runEndAt, lastLog, lastAttempt, lastGrant>>
    /\ UNCHANGED <<detVars, raceVars>>

\* the clock advances
Tick ==
    /\ Alive
    /\ now < MaxTime
    /\ now' = now + 1
    /\ UNCHANGED <<last_alert_time, mainVars, detVars, raceVars>>

Next ==
    \/ \E url \in {"absent", "set"}, token \in {"absent", "set"},
          chat \in {"absent", "not_integer", "integer"} : LoadConfig(url, token, chat)
    \/ \E ok \in BOOLEAN : Connect(ok)
    \/ \E ok \in BOOLEAN : Subscribe(ok)
    \/ StreamEnd
    \/ RecvUndecodable
    \/ \E a \in SampleAmounts, d1 \in 0 .. MaxJitter, d2 \in 0 .. MaxJitter : RecvSwap(a, d1, d2)
    \/ \E i \in 1 .. MaxAlerts, ok \in BOOLEAN : SendDone(i, ok)
    \/ WakeUp
    \/ Tick

Spec == Init /\ [][Next]_vars

\* the scheduling the runtime guarantees: the clock advances, a due sleep
\* returns, and a pending connect or subscribe call returns
FairSpec ==
    /\ Spec
    /\ WF_vars(Tick)
    /\ WF_vars(WakeUp)
    /\ WF_vars(\E ok \in BOOLEAN : Connect(ok))
    /\ WF_vars(\E ok \in BOOLEAN : Subscribe(ok))

(* --------------------------- end-to-end scenario ----------------------- *)

\* the three records of the scenario: -21 ETH, +25 ETH, +25 ETH
E2EAmounts ==
    LET T == WHALE_THRESHOLD_WEI
    IN  <<ToRaw(0 - (T + 1)), ToRaw(T + 5), ToRaw(T + 5)>>

\* the while loop handles the next record of the scenario: the first as soon
\* as the subscription is up and within 0.5 s, the second 0.5 s after the
\* first, the third at least 1 s after the second
E2EInject ==
    LET k == lastLog.seq + 1
    IN  /\ k <= Len(E2EAmounts)
        /\ k = 1 => now = connectAt
        /\ k = 2 => now = connectAt + 1
        /\ k = 3 => now >= connectAt + 1 + MIN_ALERT_INTERVAL
        /\ \E d1 \in 0 .. MaxJitter, d2 \in 0 .. MaxJitter :
              /\ k = 1 => d1 + d2 <= 1
              /\ RecvSwap(E2EAmounts[k], d1, d2)

\* the clock advances once the first record has been handled
E2ETick == lastLog.seq >= 1 /\ Tick

E2ENext ==
    \/ LoadConfig("set", "set", "integer")
    \/ Connect(TRUE)
    \/ Subscribe(TRUE)
    \/ E2EInject
    \/ \E i \in 1 .. MaxAlerts, ok \in BOOLEAN : SendDone(i, ok)
    \/ E2ETick

SpecE2E == Init /\ [][E2ENext]_vars

(* ---------------- the detector expressions on every int256 ------------- *)

\* get_abs_wei, the threshold comparison and the direction expression of
\* run_listener applied to one amount1
Detect(amount1) ==
    /\ detIn' = amount1
    /\ detOut' = [run |-> TRUE, abs |-> get_abs_wei(amount1),
                  branch |-> Branch(amount1), dir |-> Direction(amount1)]
    /\ UNCHANGED <<now, last_alert_time, mainVars, raceVars>>

DetectNext == \E amount1 \in I256Raw : Detect(amount1)

SpecDetect == Init /\ [][DetectNext]_vars

(* ------------- the rate limiter's critical section under a race -------- *)
(* RaceTasks tasks run the critical section of run_listener (lock, compare *)
(* the elapsed time, store the timestamp, unlock) on the one shared        *)
(* Arc<Mutex<Instant>>, all within a window shorter than the interval.     *)

Racers == 1 .. RaceTasks

RaceInit ==
    /\ now = 0
    /\ last_alert_time \in (0 - MIN_ALERT_INTERVAL) .. 0
    /\ raceLast0 = last_alert_time
    /\ MainRest
    /\ DetIdle
    /\ rpc = [i \in Racers |-> "lock"]
    /\ holder = 0
    /\ rres = [i \in Racers |-> "none"]

\* last_alert_time.lock().await
RLock(i) ==
    /\ rpc[i] = "lock"
    /\ MutexFree(holder)
    /\ holder' = i
    /\ rpc' = [rpc EXCEPT ![i] = "check"]
    /\ UNCHANGED <<now, last_alert_time, rres, raceLast0, mainVars, detVars>>

\* if last_time.elapsed() >= MIN_ALERT_INTERVAL; in the else branch the guard
\* is dropped at the end of the block
RCheck(i) ==
    /\ rpc[i] = "check"
    /\ IF WindowElapsed(last_alert_time, now)
       THEN /\ rpc' = [rpc EXCEPT ![i] = "stamp"]
            /\ UNCHANGED <<holder, rres>>
       ELSE /\ rpc' = [rpc EXCEPT ![i] = "done"]
            /\ rres' = [rres EXCEPT ![i] = "skipped"]
            /\ holder' = IF holder = i THEN 0 ELSE holder
    /\ UNCHANGED <<now, last_alert_time, raceLast0, mainVars, detVars>>

\* *last_time = Instant::now(); drop(last_time);
RStamp(i) ==
    /\ rpc[i] = "stamp"
    /\ last_alert_time' = now
    /\ rpc' = [rpc EXCEPT ![i] = "done"]
    /\ rres' = [rres EXCEPT ![i] = "granted"]
    /\ holder' = IF holder = i THEN 0 ELSE holder
    /\ UNCHANGED <<now, raceLast0, mainVars, detVars>>

\* the clock advances, the whole race staying within less than the interval
RTick ==
    /\ \E i \in Racers : rpc[i] # "done"
    /\ now + 1 < MIN_ALERT_INTERVAL
    /\ now' = now + 1
    /\ UNCHANGED <<last_alert_time, mainVars, detVars, raceVars>>

RaceNext ==
    \/ \E i \in Racers : RLock(i)
    \/ \E i \in Racers : RCheck(i)
    \/ \E i \in Racers : RStamp(i)
    \/ RTick

SpecRace == RaceInit /\ [][RaceNext]_vars

RaceDone == \A i \in Racers : rpc[i] = "done"

RaceGranted == Cardinality({i \in Racers : rres[i] = "granted"})

(* ================================ claims =============================== *)

\* a step in which the while loop of run_listener handled one record
Handled == lastLog'.seq # lastLog.seq

\* the mathematical |amount1| of the record handled last
LastMagnitude == MathAbs(SignedVal(lastLog.amount1))

(* C1: any two granted acquisitions are at least MIN_ALERT_INTERVAL apart, *)
(* each grant spawns exactly one dispatch, and no dispatch is spawned      *)
(* within MIN_ALERT_INTERVAL after the timestamp stored by an earlier      *)
(* grant, whatever the events and reconnects.                              *)
C1_OnePerWindow ==
    [][(Len(tasks') # Len(tasks) \/ lastGrant' # lastGrant) =>
         /\ Len(tasks') = Len(tasks) + 1
         /\ lastGrant' = <<last_alert_time'>>
         /\ lastGrant # <<>> =>
              /\ lastGrant'[1] - lastGrant[1] >= MIN_ALERT_INTERVAL
              /\ now' - lastGrant[1] >= MIN_ALERT_INTERVAL]_vars

\* two alerts were granted, one before and one after a reconnect
C1_Witness == Len(tasks) = 2 /\ attempts = 2 /\ lastLog.gate = "granted"

(* C2: once the configuration has loaded, main is always connecting,       *)
(* subscribing, streaming or sleeping, whatever the listener run met.      *)
C2_NeverStops == ConfigValid(config) => Alive

\* main sleeps, and the model's clock can reach the deadline of the sleep
SleepCanEnd == mainPc = "sleep" /\ SleepDeadline(runEndAt[1]) <= MaxTime

(* C3: main leaves its sleep only by starting exactly one connection       *)
(* attempt, no attempt starts otherwise, the attempt starts no earlier     *)
(* than RECONNECT_DELAY after the run ended (so two consecutive attempts   *)
(* are at least RECONNECT_DELAY apart), and a sleep whose deadline the     *)
(* clock can reach is always followed by a connection attempt.             *)
C3_Reconnect ==
    /\ [][/\ (mainPc = "sleep" /\ mainPc' # "sleep") =>
                (mainPc' = "connect" /\ attempts' = attempts + 1)
          /\ attempts' # attempts =>
                (mainPc \in {"start", "sleep"} /\ attempts' = attempts + 1)
          /\ (attempts' # attempts /\ mainPc = "sleep") =>
                /\ now' - runEndAt[1] >= RECONNECT_DELAY
                /\ now' - connectAt >= RECONNECT_DELAY]_vars
    /\ SleepCanEnd ~> mainPc = "connect"

\* a second connection attempt is under way after a stream that had ended
C3_Witness == attempts = 2 /\ mainPc = "connect" /\ lastLog.seq > 0

(* C4: a decoded Swap enters the whale branch if and only if the absolute  *)
(* value of amount1 is at least WHALE_THRESHOLD_WEI.                       *)
C4_WhaleIffThreshold ==
    lastLog.kind = "swap" =>
        (lastLog.branch = "whale" <=> LastMagnitude >= WHALE_THRESHOLD_WEI)

(* C5: for every int256 amount1 the direction expression gives BOUGHT if   *)
(* and only if the amount is strictly negative and SOLD otherwise; zero    *)
(* gives SOLD.                                                             *)
C5_Direction ==
    detOut.run =>
        /\ detOut.dir = "BOUGHT" <=> SignedVal(detIn) < 0
        /\ detOut.dir = "SOLD" <=> SignedVal(detIn) >= 0

\* the direction expression was applied to a zero amount
C5_Witness == detOut.run /\ detIn = 0 /\ detOut.dir = "SOLD"

(* C6 as stated: of the racing attempts made within a window shorter than  *)
(* MIN_ALERT_INTERVAL exactly one is granted.                              *)
C6_ExactlyOne == RaceDone => RaceGranted = 1

(* C6 as amended: of the racing attempts at most one is granted, and       *)
(* exactly one when MIN_ALERT_INTERVAL had elapsed since the last grant    *)
(* before the race began; every other attempt is told to skip.             *)
C6_AtMostOne ==
    RaceDone =>
        /\ RaceGranted <= 1
        /\ raceLast0 + MIN_ALERT_INTERVAL <= 0 => RaceGranted = 1
        /\ \A i \in Racers : rres[i] \in {"granted", "skipped"}

\* the race is over on a limiter whose window had elapsed: one winner
C6_Witness ==
    /\ RaceDone
    /\ raceLast0 + MIN_ALERT_INTERVAL <= 0
    /\ RaceGranted = 1
    /\ Cardinality({i \in Racers : rres[i] = "skipped"}) = RaceTasks - 1

(* C7: an acquisition attempt made at least MIN_ALERT_INTERVAL after the   *)
(* previous attempt finished is granted and spawns its dispatch.           *)
C7_GrantedAfterInterval ==
    [][(/\ Handled
        /\ lastLog'.branch = "whale"
        /\ lastAttempt # <<>>
        /\ now - lastAttempt[1] >= MIN_ALERT_INTERVAL) =>
            (lastLog'.gate = "granted" /\ Len(tasks') = Len(tasks) + 1)]_vars

\* two attempts of one stream, exactly the interval apart, were both granted
C7_Witness ==
    /\ Len(tasks) = 2
    /\ attempts = 1
    /\ lastLog.gate = "granted"
    /\ now = MIN_ALERT_INTERVAL

(* C8: the first alert-worthy event (|amount1| >= WHALE_THRESHOLD_WEI)     *)
(* handled after startup is granted and its dispatch spawned.  (No earlier *)
(* record entered the whale branch: lastAttempt is still empty.)           *)
C8_FirstWhaleGranted ==
    [][(/\ Handled
        /\ lastLog'.kind = "swap"
        /\ MathAbs(SignedVal(lastLog'.amount1)) >= WHALE_THRESHOLD_WEI
        /\ lastAttempt = <<>>) =>
            (lastLog'.gate = "granted" /\ Len(tasks') = Len(tasks) + 1)]_vars

(* C8 restricted to the amounts get_abs_wei returns for: the first record  *)
(* that enters the whale branch is granted and its dispatch spawned.       *)
C8_FirstAttemptGranted ==
    [][(Handled /\ lastLog'.branch = "whale" /\ lastAttempt = <<>>) =>
            (lastLog'.gate = "granted" /\ Len(tasks') = Len(tasks) + 1)]_vars

(* C4 restricted to the amounts get_abs_wei returns for.                   *)
C4_WhaleIffThresholdInRange ==
    (lastLog.kind = "swap" /\ lastLog.branch # "panic") =>
        (lastLog.branch = "whale" <=> LastMagnitude >= WHALE_THRESHOLD_WEI)

(* C9: a denied attempt leaves last_alert_time unchanged and spawns no     *)
(* dispatch; once initialised, last_alert_time changes only in a granted   *)
(* attempt.                                                                *)
C9_DeniedChangesNothing ==
    [][/\ (Handled /\ lastLog'.gate = "limited") =>
             (last_alert_time' = last_alert_time /\ tasks' = tasks)
       /\ (last_alert_time' # last_alert_time /\ mainPc # "start") =>
             (Handled /\ lastLog'.gate = "granted")]_vars

\* a whale was rate limited
C9_Witness == lastLog.gate = "limited" /\ Len(tasks) = 1

(* C10: a record that fails to decode leaves main in the same stream,      *)
(* spawns nothing and leaves the rate limiter as it was.                   *)
C10_DecodeFailureSkipped ==
    [][(Handled /\ lastLog'.kind = "decode_fail") =>
          /\ mainPc' = "stream"
          /\ attempts' = attempts
          /\ tasks' = tasks
          /\ last_alert_time' = last_alert_time
          /\ lastAttempt' = lastAttempt]_vars

\* the record after an undecodable one was handled in the same stream, a
\* granted whale
C10_Witness ==
    /\ lastLog.prevKind = "decode_fail"
    /\ lastLog.kind = "swap"
    /\ lastLog.gate = "granted"
    /\ attempts = 1

\* the send of task i ends in this step, with a failure
SendFails(i) ==
    /\ i \in 1 .. Len(tasks)
    /\ tasks[i].status = "inflight"
    /\ tasks'[i].status = "failed"

(* C11: a failed send changes nothing but the task's own outcome: main     *)
(* stays where it is in the same stream, no reconnect starts, the rate     *)
(* limiter keeps its timestamp, no task is added (no retry), a failed task *)
(* never sends again, and tasks are spawned only by granted attempts.      *)
C11_FailedSendOnlyLogged ==
    [][/\ \A i \in 1 .. MaxAlerts + 1 :
            /\ SendFails(i) =>
                  /\ mainPc' = mainPc
                  /\ attempts' = attempts
                  /\ runEndAt' = runEndAt
                  /\ last_alert_time' = last_alert_time
                  /\ lastAttempt' = lastAttempt
                  /\ lastLog' = lastLog
                  /\ sink' = sink
                  /\ Len(tasks') = Len(tasks)
            /\ (i <= Len(tasks) /\ tasks[i].status = "failed") =>
                  tasks'[i].status = "failed"
       /\ Len(tasks') # Len(tasks) => (Handled /\ lastLog'.gate = "granted")]_vars

\* after the first alert's send failed, the next whale of the same stream was
\* granted and its send delivered
C11_Witness ==
    /\ Len(tasks) = 2
    /\ tasks[1].status = "failed"
    /\ tasks[2].status = "sent"
    /\ attempts = 1
    /\ mainPc = "stream"

\* the sends that have neither succeeded nor failed yet
InFlight == {i \in 1 .. Len(tasks) : tasks[i].status = "inflight"}

\* the limiter would grant a record with this amount1 handled now
WouldGrant(amount1) ==
    Branch(amount1) = "whale" /\ WindowElapsed(last_alert_time, now)

(* C12: while a send is in flight the rate limiter's mutex is free, and a  *)
(* streaming consumer can take its next record at once, whatever it is: an *)
(* undecodable log, a small swap, a rate-limited whale, or a whale that is *)
(* granted and spawns a further send.                                      *)
C12_FireAndForget ==
    InFlight # {} =>
        /\ holder = 0
        /\ (mainPc = "stream" /\ lastLog.seq < MaxRecs) =>
              /\ ENABLED RecvUndecodable
              /\ \A a \in SampleAmounts :
                    (WouldGrant(a) => Len(tasks) < MaxAlerts) =>
                        ENABLED RecvSwap(a, 0, 0)

\* a second send was spawned and a third record handled while the first send
\* was still in flight
C12_Witness ==
    /\ Len(tasks) = 2
    /\ InFlight = {1, 2}
    /\ lastLog.seq = 3
    /\ mainPc = "stream"

(* C13: the notifications reach the messaging sink in the order in which   *)
(* their whales were handled: tasks are numbered in spawn order, which is  *)
(* stream order, so the sink lists task numbers in increasing order.       *)
C13_AlertsInOrder ==
    \A j, k \in 1 .. Len(sink) : j < k => sink[j] < sink[k]

\* what has been dispatched once k records of the scenario are handled
E2EExpected(k) ==
    IF k = 0 THEN <<>>
    ELSE IF k \in {1, 2} THEN <<[dir |-> "BOUGHT", eth |-> WHALE_THRESHOLD_WEI + 1]>>
    ELSE <<[dir |-> "BOUGHT", eth |-> WHALE_THRESHOLD_WEI + 1],
           [dir |-> "SOLD", eth |-> WHALE_THRESHOLD_WEI + 5]>>

\* direction and amount of every dispatch so far, in spawn order
Dispatched == [i \in 1 .. Len(tasks) |-> [dir |-> tasks[i].dir, eth |-> tasks[i].eth]]

(* C14: in the scenario -21 ETH, then +25 ETH 0.5 s later, then +25 ETH at *)
(* least 1 s after that, the first record is granted and dispatches one    *)
(* BOUGHT message, the second is rate-limited and dispatches nothing, now  *)
(* or later, and the third is granted and dispatches one SOLD message; a   *)
(* dispatch is added only by the step that handles a granted record, which *)
(* adds exactly one.                                                       *)
C14_EndToEnd ==
    /\ [](/\ Dispatched = E2EExpected(lastLog.seq)
          /\ lastLog.seq \in {1, 3} => lastLog.gate = "granted"
          /\ lastLog.seq = 2 => lastLog.gate = "limited")
    /\ [][IF Handled /\ lastLog'.gate = "granted"
          THEN Len(tasks') = Len(tasks) + 1
          ELSE Len(tasks') = Len(tasks)]_vars

\* the whole scenario has run and both sends were delivered
C14_Witness ==
    /\ lastLog.seq = 3
    /\ Dispatched = E2EExpected(3)
    /\ sink = <<1, 2>>

(* C15: a spawned send is never cancelled: as long as it is in flight the  *)
(* process is running (streaming, in its back-off sleep or reconnecting),  *)
(* so the send can still run to its success or failure.                    *)
C15_NeverCancelled == InFlight # {} => Alive

\* short of a panic of main, a send in flight can complete or fail in every
\* state, the back-off sleep and the reconnect included
C15_CompletesWhileRunning ==
    \A i \in InFlight :
        mainPc # "panicked" =>
            ENABLED SendDone(i, TRUE) /\ ENABLED SendDone(i, FALSE)

\* the environment was read and a required value is absent, or the chat id
\* is not an integer
ConfigIncomplete ==
    /\ config # NoConfig
    /\ \/ config.url = "absent"
       \/ config.token = "absent"
       \/ config.chat \in {"absent", "not_integer"}

(* C16: with an incomplete configuration the process has aborted at        *)
(* startup: run_listener was never called, so there was no connection      *)
(* attempt, no record handled and no dispatch; and the abort is final, the *)
(* configuration is never read again.                                      *)
C16_ConfigFatal ==
    /\ [](ConfigIncomplete =>
             /\ mainPc = "aborted"
             /\ attempts = 0
             /\ lastLog = NoLog
             /\ tasks = <<>>
             /\ sink = <<>>)
    /\ [][mainPc = "aborted" => (mainPc' = "aborted" /\ config' = config)]_vars

\* the process aborted on a chat id that is present but not an integer
C16_Witness ==
    /\ mainPc = "aborted"
    /\ config = [url |-> "set", token |-> "set", chat |-> "not_integer"]

(* C17: for every int256 amount, get_abs_wei returns normally and its      *)
(* result is the mathematical absolute value of the amount.                *)
C17_AbsExact ==
    detOut.run =>
        /\ detOut.abs.ok
        /\ detOut.abs.val = MathAbs(SignedVal(detIn))

\* what get_abs_wei does: exact when the magnitude fits u128, a panic (never a
\* truncated or wrapped value) when it does not, the minimum value included
C17_AbsExactOrPanic ==
    detOut.run =>
        IF MathAbs(SignedVal(detIn)) <= U128_MAX
        THEN detOut.abs.ok /\ detOut.abs.val = MathAbs(SignedVal(detIn))
        ELSE ~detOut.abs.ok

(* C18: the step that handles a decoded swap below the threshold only logs *)
(* it: it takes the small branch without a rate-limiter attempt, leaves    *)
(* the last-sent timestamp, the mutex, the tasks and the clock as they     *)
(* were and stays in the stream, so the limiter's answer to any later      *)
(* record is what it would have been without the small swap.               *)
C18_SmallOnlyLogged ==
    [][(/\ Handled
        /\ lastLog'.kind = "swap"
        /\ MathAbs(SignedVal(lastLog'.amount1)) < WHALE_THRESHOLD_WEI) =>
           /\ lastLog'.branch = "small"
           /\ lastLog'.gate = "none"
           /\ last_alert_time' = last_alert_time
           /\ lastAttempt' = lastAttempt
           /\ lastGrant' = lastGrant
           /\ holder' = holder
           /\ tasks' = tasks
           /\ sink' = sink
           /\ now' = now
           /\ mainPc' = mainPc
           /\ \A a \in SampleAmounts : WouldGrant(a)' = WouldGrant(a)]_vars

\* a small swap was handled after a whale had been granted and dispatched
C18_Witness ==
    /\ lastLog.branch = "small"
    /\ lastAttempt # <<>>
    /\ Len(tasks) = 1

====
